---- MODULE Spec2Model ----
(***************************************************************************)
(* Contribution scoring and on-chain execution pipeline of celo-identity.  *)
(*                                                                         *)
(* The module holds one state machine per part of the program:             *)
(*   SpecScore   calculateFinalScore        (src/lib/ai-verify.ts)         *)
(*   SpecTier    the four tier resolvers    (scorer.ts, badge-minting.ts,  *)
(*               route.ts, submit-contribution.tsx)                        *)
(*   SpecVerify  verifyWithAI and its fallback (src/lib/ai-verify.ts)      *)
(*   SpecAddr    wallet ownership check of the submit route                *)
(*   Spec        runAgent / executeOnchain  (src/agent)                    *)
(*   SpecWeb     POST /api/contributions/submit followed by handleSubmit   *)
(*                                                                         *)
(* Numbers: the program computes in IEEE-754 doubles.  The model computes  *)
(* the same expressions as exact fractions num/den.  The two agree except  *)
(* where the exact value lies on a rounding boundary and the double lands  *)
(* one ulp below it; that case is the variable ulpBelow (see JsRound).     *)
(***************************************************************************)
EXTENDS Integers, Sequences, FiniteSets, TLC

VARIABLES
  \* ---- calculateFinalScore harness
  aiResult,        \* AIVerificationResult handed to calculateFinalScore
  ctype,           \* contribution type, a key of BASE_SCORES
  walletVerified,  \* third argument of calculateFinalScore
  ulpBelow,        \* TRUE: the double product lands one ulp below the exact value
  finalScore,      \* value returned, NoValue before the call
  \* ---- tier resolver harness
  totalScore,      \* cumulative score handed to the resolvers
  tierOf,          \* resolver name -> returned value, Unset before the call
  \* ---- verifyWithAI harness
  analysis,        \* ContributionAnalysis handed to verifyWithAI
  apiKey,          \* TRUE: process.env.GEMINI_API_KEY is set
  verifyPc,        \* "start" | "awaitOracle" | "done"
  verdict,         \* AIVerificationResult returned, <<>> before the return
  oracleCalls,     \* requests sent to the oracle
  oracleOutcome,   \* how the oracle call of verifyWithAI ended, "none" before it
  \* ---- wallet ownership harness
  address,         \* the address field of the request body
  bioWallet,       \* first 0x-hex match in the profile bio, NoAddr when none
  keccakUpper,     \* lowercase digits -> positions the checksum hash puts in upper case
  analyzed,        \* TRUE once analyzeGitHubLink has returned
  detectedWallet,  \* ContributionAnalysis.detectedWallet, NoAddr for null
  ownership,       \* outcome of the route's wallet check, Unset before it
  \* ---- the ledger (registry, score and badge contracts)
  usedProofs,      \* proof hashes the registry has recorded
  chainScore,      \* user -> score held by the score contract
  minted,          \* set of [to, tokenId, uri] the badge contract has minted
  txCount,         \* transactions confirmed so far (the next hash is txCount + 1)
  calls,           \* process -> [register, increase, mint]: calls it has submitted
  \* ---- runAgent / executeOnchain, one run per process
  contribution,    \* process -> the Contribution handed to runAgent
  agentPc,         \* process -> "start" | "register" | "score" | "badge" | "done"
  scoreDelta,      \* process -> scoringResult.finalScore
  currentTotal,    \* process -> currentTotalScore read before the run
  newTotal,        \* process -> newTotalScore = currentTotal + scoreDelta
  result,          \* process -> ExecutionResult
  failedStep,      \* process -> the step whose failure ended the run, "none" otherwise
  \* ---- POST /api/contributions/submit and handleSubmit, one run per session
  request,         \* session -> the body handleSubmit posts
  webPc,           \* session -> the await the run stands at
  post,            \* session -> locals of POST: finalScore, recommendation, totals, newTier
  response,        \* session -> what POST answered, <<>> before the answer
  client,          \* session -> locals of handleSubmit after the answer
  identityCalls,   \* session -> requests POST has sent to the identity source
  \* ---- the record store
  contributions,   \* rows of table contributions, oldest first
  userTiers,       \* user_address -> row of table user_tiers, <<>> when there is none
  history          \* rows of table reputation_history, oldest first

scoreVars  == <<aiResult, ctype, walletVerified, ulpBelow, finalScore>>
tierVars   == <<totalScore, tierOf>>
verifyVars == <<analysis, apiKey, verifyPc, verdict, oracleCalls, oracleOutcome>>
addrVars   == <<address, bioWallet, keccakUpper, analyzed, detectedWallet, ownership>>
ledgerVars == <<usedProofs, chainScore, minted, txCount, calls>>
agentVars  == <<contribution, agentPc, scoreDelta, currentTotal, newTotal, result, failedStep>>
webVars    == <<request, webPc, post, response, client, identityCalls>>
storeVars  == <<contributions, userTiers, history>>
vars == <<scoreVars, tierVars, verifyVars, addrVars, ledgerVars, agentVars, webVars, storeVars>>

\* what each state machine leaves alone
outsideScore  == <<webVars, storeVars, tierVars, verifyVars, addrVars, ledgerVars, agentVars>>
outsideTier   == <<webVars, storeVars, scoreVars, verifyVars, addrVars, ledgerVars, agentVars>>
outsideVerify == <<webVars, storeVars, scoreVars, tierVars, addrVars, ledgerVars, agentVars>>
outsideAddr   == <<webVars, storeVars, scoreVars, tierVars, verifyVars, ledgerVars, agentVars>>
outsideAgent  == <<scoreVars, tierVars, verifyVars, addrVars, webVars, storeVars>>
outsideWeb    == <<scoreVars, tierVars, agentVars>>

NoValue == 0 - 1
Unset   == "unset"
Null    == "null"

Min(a, b) == IF a <= b THEN a ELSE b
Max(a, b) == IF a >= b THEN a ELSE b

(***************************************************************************)
(* Math.round of the non-negative fraction num/den: the nearest integer,   *)
(* a tie going up.  below = TRUE is the double that lies one ulp under an  *)
(* exact tie, which Math.round takes down.                                 *)
(***************************************************************************)
JsRound(num, den, below) ==
  IF (2 * num) % (2 * den) = den /\ below
    THEN num \div den
    ELSE (2 * num + den) \div (2 * den)

\* ------------------------------------------------------------ scores.ts
BASE_SCORES ==
  "PR_MERGED" :> 25 @@ "COMMIT" :> 10 @@ "BUG_FIX" :> 20 @@ "DOCUMENTATION" :> 15
  @@ "CODE_REVIEW" :> 12 @@ "POST_IMPACT" :> 30 @@ "OTHER" :> 10

ContributionTypes == DOMAIN BASE_SCORES

\* ------------------------------------------- ai-verify.ts: calculateFinalScore
IMPACT_DIV  == 150
QUALITY_DIV == 160
AUTH_DIV    == 200
\* WALLET_BONUS = 1.20 = WALLET_BONUS_NUM / WALLET_BONUS_DEN
WALLET_BONUS_NUM == 6
WALLET_BONUS_DEN == 5
MAX_CAP == 3
\* NON_AUTH_PEN = 0.25 = 1 / NON_AUTH_PEN_DEN
NON_AUTH_PEN_DEN == 4

\* score = baseScore * impMult * qulMult * auMult [* WALLET_BONUS] as the
\* fraction ScoreNum / ScoreDen.  The bonus 6/5 is folded into the impact
\* divisor (150 * 5 / 6 = 125) so that the numerator stays below 2^31.
ScoreNum(ai, baseScore) ==
  baseScore * (IMPACT_DIV + ai.impactScore) * (QUALITY_DIV + ai.qualityScore)
            * (AUTH_DIV + ai.authenticity)

ScoreDen(wallet) ==
  (IF wallet THEN (IMPACT_DIV * WALLET_BONUS_DEN) \div WALLET_BONUS_NUM
             ELSE IMPACT_DIV) * QUALITY_DIV * AUTH_DIV

CalculateFinalScore_NoCap(ai, baseScore, wallet, below) ==
  IF ai.finalScore = 0 \/ ai.recommendation = "reject" THEN 0
  ELSE IF ~ai.authentic THEN JsRound(baseScore, NON_AUTH_PEN_DEN, FALSE)
  ELSE JsRound(ScoreNum(ai, baseScore), ScoreDen(wallet), below)

CalculateFinalScore_PenFirst(ai, baseScore, wallet, below) ==
  IF ~ai.authentic THEN JsRound(baseScore, NON_AUTH_PEN_DEN, FALSE)
  ELSE IF ai.finalScore = 0 \/ ai.recommendation = "reject" THEN 0
  ELSE LET num == ScoreNum(ai, baseScore)
           den == ScoreDen(wallet)
       IN  IF num >= baseScore * MAX_CAP * den
             THEN baseScore * MAX_CAP
             ELSE JsRound(num, den, below)

CalculateFinalScore(ai, baseScore, wallet, below) ==
  IF ai.finalScore = 0 \/ ai.recommendation = "reject" THEN 0
  ELSE IF ~ai.authentic THEN JsRound(baseScore, NON_AUTH_PEN_DEN, FALSE)
  ELSE LET num == ScoreNum(ai, baseScore)
           den == ScoreDen(wallet)
       IN  \* Math.round(Math.min(score, baseScore * MAX_CAP))
           IF num >= baseScore * MAX_CAP * den
             THEN baseScore * MAX_CAP
             ELSE JsRound(num, den, below)

\* ------------------------------------------- ai-verify.ts: verifyWithAI
Missing == <<>>

\* celoContributions.reduce((sum, c) => sum + c.contributionCount, 0)
RECURSIVE SumCommits(_)
SumCommits(cs) ==
  IF cs = <<>> THEN 0 ELSE Head(cs).contributionCount + SumCommits(Tail(cs))

\* celoContributions.reduce((sum, r) => sum + Math.min(r.stars, 100), 0)
RECURSIVE SumStarsCapped(_)
SumStarsCapped(cs) ==
  IF cs = <<>> THEN 0 ELSE Min(Head(cs).stars, 100) + SumStarsCapped(Tail(cs))

\* analyzeGitHubLink: the fields of ContributionAnalysis the verifier reads
HasCeloContribution(celoContributions) == Len(celoContributions) > 0
CeloContributionCount(celoContributions) == SumCommits(celoContributions)

MakeAnalysis(followers, languages, celoContributions) ==
  [followers |-> followers, languages |-> languages,
   celoContributions |-> celoContributions,
   hasCeloContribution |-> HasCeloContribution(celoContributions),
   celoContributionCount |-> CeloContributionCount(celoContributions)]

\* the zero-score opinion both verifyWithAI and the fallback return
NoCeloVerification ==
  [authentic |-> TRUE, impactScore |-> 0, qualityScore |-> 0, authenticity |-> 0,
   finalScore |-> 0, recommendation |-> "reject"]

\* generateDefaultVerification.  With n repositories: impact in tenths,
\* quality in n-ths, the final score in (100 n)-ths.
GenerateDefaultVerification(a) ==
  IF ~a.hasCeloContribution THEN NoCeloVerification
  ELSE
    LET n == Len(a.celoContributions)
        starSum == SumStarsCapped(a.celoContributions)
        commitImpact == Min(100, a.celoContributionCount * 5)
        impact10 == Min(1000, 15 * a.followers + 4 * commitImpact)
        qualityN == Min(100 * n, starSum + a.languages * 8 * n)
        authenticScore == IF a.celoContributionCount > 0 /\ a.followers >= 0 THEN 90 ELSE 75
        final100n == 3 * impact10 * n + 30 * qualityN + 40 * authenticScore * n
    IN  [authentic |-> a.celoContributionCount > 0,
         impactScore |-> JsRound(impact10, 10, FALSE),
         qualityScore |-> JsRound(qualityN, n, FALSE),
         authenticity |-> authenticScore,
         finalScore |-> JsRound(final100n, 100 * n, FALSE),
         recommendation |-> IF final100n > 70 * 100 * n THEN "accept"
                            ELSE IF final100n > 50 * 100 * n THEN "review"
                            ELSE "reject"]

\* A field of the parsed answer is <<v>> when the answer holds v, and
\* Missing when it does not hold the field.
Field(v) == <<v>>
\* a field holding a string that is no numeral ("high"): truthy, and NaN
\* once Math.max converts it to a number
Text(s) == <<"text", s>>
IsText(x) == Len(x) = 2
\* NaN, the result of Math.min and Math.max on a NaN argument; it lies in no
\* interval of numbers
NaN == 0 - 1000
\* Math.min(100, Math.max(0, x || 0))
Clamp100(x) ==
  IF x = Missing THEN 0
  ELSE IF IsText(x) THEN NaN
  ELSE Min(100, Max(0, x[1]))

\* the object built from the parsed oracle answer (lines 135-144)
ParsedVerification(r) ==
  [authentic |-> (r.authentic # Missing /\ r.authentic[1])
                 \/ (r.authenticity # Missing /\ ~IsText(r.authenticity)
                       /\ r.authenticity[1] > 50),
   impactScore |-> Clamp100(r.impactScore),
   qualityScore |-> Clamp100(r.qualityScore),
   authenticity |-> Clamp100(r.authenticity),
   finalScore |-> Clamp100(r.finalScore),
   recommendation |-> IF r.recommendation = Missing THEN "review" ELSE r.recommendation[1]]

\* the ways the oracle call ends without a parsed object
OracleFailures == {"throws", "not_ok", "no_content", "no_json", "bad_json"}

\* ------------------------------------------- addresses (ethers.getAddress)
\* An address is modelled by its hex digits after "0x": a sequence of
\* AddrLen characters.  "1" is a decimal digit, "a"/"A" a hex letter in
\* either case, "g" a character that is no hex digit.
AddrLen == 2
\* null where an address is expected (no address has length 0)
NoAddr == <<>>
HexChars == {"1", "a", "A"}
AnyChars == HexChars \cup {"g"}

LowerChar(c) == IF c = "A" THEN "a" ELSE c
UpperChar(c) == IF c = "a" THEN "A" ELSE c

\* String.prototype.toLowerCase
ToLowerCase(s) == [i \in DOMAIN s |-> LowerChar(s[i])]

\* /^0x[0-9a-fA-F]{40}$/
IsHexAddress(s) == Len(s) = AddrLen /\ \A i \in DOMAIN s : s[i] \in HexChars

\* /([A-F].*[a-f])|([a-f].*[A-F])/
IsMixedCase(s) == (\E i \in DOMAIN s : s[i] = "A") /\ (\E i \in DOMAIN s : s[i] = "a")

\* the EIP-55 form: a letter is upper case where the hash of the lowercase
\* digits says so
ChecksumAddress(s, hash) ==
  LET low == ToLowerCase(s)
  IN  [i \in DOMAIN s |-> IF hash[low][i] THEN UpperChar(low[i]) ELSE low[i]]

\* the address strings the state machines use: one address in lower and in upper
\* case, another address, a string that is no address, and the empty string
WalletLower == [i \in 1..AddrLen |-> IF i = 1 THEN "a" ELSE "1"]
WalletUpper == [i \in 1..AddrLen |-> IF i = 1 THEN "A" ELSE "1"]
OtherWallet == [i \in 1..AddrLen |-> "1"]
NotAnAddress == [i \in 1..AddrLen |-> IF i = 1 THEN "g" ELSE "1"]

\* ethers.getAddress, NoAddr where it throws
GetAddress(s, hash) ==
  IF ~IsHexAddress(s) THEN NoAddr
  ELSE LET checksummed == ChecksumAddress(s, hash)
       IN  IF IsMixedCase(s) /\ checksummed # s THEN NoAddr ELSE checksummed

\* ai-verify.ts: normalizeAddress applied to the bio match (lines 331-332)
NormalizedBioWallet(bio, hash) ==
  IF bio = NoAddr THEN NoAddr ELSE GetAddress(bio, hash)

OwnershipCheck_Raw(addr, detected, hash) ==
  IF detected = NoAddr THEN "no_bio_wallet"
  ELSE IF GetAddress(addr, hash) = NoAddr THEN "invalid_format"
  ELSE IF addr # detected THEN "mismatch"
  ELSE "verified"

OwnershipCheck_NoMatch(addr, detected, hash) ==
  IF detected = NoAddr THEN "no_bio_wallet"
  ELSE IF GetAddress(addr, hash) = NoAddr THEN "invalid_format"
  ELSE "verified"

\* route.ts lines 40-75: the wallet check of POST
OwnershipCheck(addr, detected, hash) ==
  IF detected = NoAddr THEN "no_bio_wallet"
  ELSE LET normalizedProvided == GetAddress(addr, hash)
       IN  IF normalizedProvided = NoAddr THEN "invalid_format"
           ELSE IF ToLowerCase(normalizedProvided) # ToLowerCase(detected) THEN "mismatch"
           ELSE "verified"

\* ------------------------------------------------ scorer.ts: calculateScore
baseScores ==
  "PR_MERGED" :> 20 @@ "COMMIT" :> 3 @@ "POST_IMPACT" :> 5 @@ "CODE_REVIEW" :> 8
  @@ "DOCUMENTATION" :> 10 @@ "BUG_FIX" :> 15

\* A description is modelled by what calculateMultiplier reads of it:
\*   spam      isSpam(contribution)
\*   major     it includes "major" or "critical"
\*   security  it includes "security" or "vulnerability"
\*   refactor  it includes "refactor" or "optimization"
\*   detailed  it is longer than 50 characters
\* The multiplier is the fraction MultNum / MultDen, each factor in tenths.
Factor(applies, tenths) == IF applies THEN tenths ELSE 10

MultNum(c) ==
  Factor(c.description.spam, 3) * Factor(c.description.major, 15)
  * Factor(c.description.security, 18) * Factor(c.description.refactor, 12)
  * Factor(c.type = "COMMIT" /\ c.description.detailed, 11)

MultDen == 10 * 10 * 10 * 10 * 10

\* baseScore * Math.min(2.0, Math.max(0.5, multiplier)), as a fraction over MultDen
BoundedProduct(baseScore, num) ==
  baseScore * Min(2 * MultDen, Max(MultDen \div 2, num))

\* The double 1.5 * 1.2 is 1.7999999999999998, and 15 times it is
\* 26.999999999999996: the one product of the table that Math.floor takes
\* below the exact value.
FloorBelowExact(c) ==
  /\ c.type = "BUG_FIX"
  /\ c.description.major /\ c.description.refactor
  /\ ~c.description.spam /\ ~c.description.security

\* calculateScore(contribution).finalScore
CalculateScore(c) ==
  LET exact == BoundedProduct(baseScores[c.type], MultNum(c)) \div MultDen
  IN  IF FloorBelowExact(c) THEN exact - 1 ELSE exact

\* ------------------------------------------------ badges.ts
\* generateBadgeTokenId: the bytes of (address in lower case + tier) as hex
\* digits, cut to the first 64 (src/agent) or 62 (src/lib).  Two hex digits
\* per character: the cut keeps "0x" and the first 30 (29) of the 40 address
\* digits, and nothing of the tier.  The model keeps all but the last digit,
\* and the number of bytes of the resulting number (its first byte, the
\* character "0", is not zero, so numbers of different length differ).
KeptDigits == AddrLen - 1
AgentBadgeTokenId(userAddress, tier) ==
  [bytes |-> 32, digits |-> SubSeq(ToLowerCase(userAddress), 1, KeptDigits)]
WebBadgeTokenId(userAddress, tier) ==
  [bytes |-> 31, digits |-> SubSeq(ToLowerCase(userAddress), 1, KeptDigits)]

\* encodeBadgeSVG(generateBadgeSVG(tier)): the same template in src/agent and
\* src/lib, filled from the tier alone
BadgeUri(tier) == <<"data:image/svg+xml;base64", tier>>

\* ------------------------------------------------ the ledger
\* keccak256 of JSON.stringify(contribution), taken as free of collisions
ProofHash(c) == <<"keccak256", c>>

\* ContributionRegistry.registerContribution reverts on a proof hash it has
RegistryAccepts(proofs, proofHash) == proofHash \notin proofs

NoTx == <<>>
TxHash(n) == <<n>>

\* the messages a failed call or wait is reported with
Causes == {"execution reverted", "timeout"}

\* ------------------------------------------------ tier resolvers
\* scorer.ts: checkTierQualification
CheckTierQualification(score) ==
  IF score >= 700 THEN "LEADER"
  ELSE IF score >= 300 THEN "CONTRIBUTOR"
  ELSE IF score >= 100 THEN "BUILDER"
  ELSE Null

\* badge-minting.ts: TIER_CONFIG
TIER_CONFIG == [BUILDER |-> 100, CONTRIBUTOR |-> 300, LEADER |-> 700]

GetTierForScore_Strict(score) ==
  IF score > TIER_CONFIG.LEADER THEN "LEADER"
  ELSE IF score > TIER_CONFIG.CONTRIBUTOR THEN "CONTRIBUTOR"
  ELSE IF score > TIER_CONFIG.BUILDER THEN "BUILDER"
  ELSE Null

\* badge-minting.ts: getTierForScore
GetTierForScore(score) ==
  IF score >= TIER_CONFIG.LEADER THEN "LEADER"
  ELSE IF score >= TIER_CONFIG.CONTRIBUTOR THEN "CONTRIBUTOR"
  ELSE IF score >= TIER_CONFIG.BUILDER THEN "BUILDER"
  ELSE Null

\* route.ts: the inline computation of newTier in POST
RouteNewTier(newTotalScore) ==
  IF newTotalScore >= 700 THEN "LEADER"
  ELSE IF newTotalScore >= 300 THEN "CONTRIBUTOR"
  ELSE IF newTotalScore >= 100 THEN "BUILDER"
  ELSE "UNRANKED"

\* submit-contribution.tsx: getTierFromScore
GetTierFromScore(score) ==
  IF score >= 700 THEN "LEADER"
  ELSE IF score >= 300 THEN "CONTRIBUTOR"
  ELSE IF score >= 100 THEN "BUILDER"
  ELSE "UNRANKED"

\* =================================================================
\* SpecScore: calculateFinalScore applied to bounded inputs
\* =================================================================
ScoreStep == 20
ScoreGrid == {v \in 0..100 : v % ScoreStep = 0} \cup {100}

Opinions ==
  [authentic : BOOLEAN, impactScore : ScoreGrid, qualityScore : ScoreGrid,
   authenticity : ScoreGrid, finalScore : {0, 60},
   recommendation : {"accept", "reject"}]

TierIdle == totalScore = 0 /\ tierOf = <<>>

LedgerIdle ==
  /\ usedProofs = {} /\ chainScore = <<>> /\ minted = {} /\ txCount = 0 /\ calls = <<>>

AgentIdle ==
  /\ contribution = <<>> /\ agentPc = <<>> /\ scoreDelta = <<>> /\ currentTotal = <<>>
  /\ newTotal = <<>> /\ result = <<>> /\ failedStep = <<>>

AddrIdle ==
  /\ address = <<>> /\ bioWallet = <<>> /\ keccakUpper = <<>>
  /\ analyzed = FALSE /\ detectedWallet = <<>> /\ ownership = Unset

VerifyIdle ==
  /\ analysis = <<>> /\ apiKey = FALSE /\ verifyPc = "idle"
  /\ verdict = <<>> /\ oracleCalls = 0 /\ oracleOutcome = "none"

WebIdle ==
  /\ request = <<>> /\ webPc = <<>> /\ post = <<>> /\ response = <<>> /\ client = <<>>
  /\ identityCalls = <<>>
  /\ contributions = <<>> /\ userTiers = <<>> /\ history = <<>>

InitScore ==
  /\ aiResult \in Opinions
  /\ ctype \in ContributionTypes
  /\ walletVerified \in BOOLEAN
  /\ ulpBelow \in BOOLEAN
  /\ finalScore = NoValue
  /\ TierIdle /\ VerifyIdle /\ AddrIdle /\ LedgerIdle /\ AgentIdle /\ WebIdle

Calculate ==
  /\ finalScore = NoValue
  /\ finalScore' = CalculateFinalScore(aiResult, BASE_SCORES[ctype], walletVerified, ulpBelow)
  /\ UNCHANGED <<aiResult, ctype, walletVerified, ulpBelow>>
  /\ UNCHANGED outsideScore

NextScore == Calculate

SpecScore == InitScore /\ [][NextScore]_vars

\* =================================================================
\* SpecTier: the four tier resolvers applied to one cumulative score
\* =================================================================
MaxTotal == 800
Resolvers == {"checkTierQualification", "getTierForScore", "route", "getTierFromScore"}

ScoreIdle ==
  /\ aiResult = <<>> /\ ctype = "OTHER" /\ walletVerified = FALSE
  /\ ulpBelow = FALSE /\ finalScore = NoValue

InitTier ==
  /\ totalScore \in 0..MaxTotal
  /\ tierOf = [r \in Resolvers |-> Unset]
  /\ ScoreIdle /\ VerifyIdle /\ AddrIdle /\ LedgerIdle /\ AgentIdle /\ WebIdle

Resolve(r, tier) ==
  /\ tierOf[r] = Unset
  /\ tierOf' = [tierOf EXCEPT ![r] = tier]
  /\ UNCHANGED totalScore
  /\ UNCHANGED outsideTier

ResolveScorer == Resolve("checkTierQualification", CheckTierQualification(totalScore))
ResolveBadge  == Resolve("getTierForScore", GetTierForScore(totalScore))
ResolveRoute  == Resolve("route", RouteNewTier(totalScore))
ResolveUi     == Resolve("getTierFromScore", GetTierFromScore(totalScore))

NextTier == ResolveScorer \/ ResolveBadge \/ ResolveRoute \/ ResolveUi

SpecTier == InitTier /\ [][NextTier]_vars

\* =================================================================
\* SpecVerify: verifyWithAI on bounded analyses and oracle answers
\* =================================================================
MaxRepos   == 2
MaxCommits == 1
FollowerValues == {0, 7, 70}
StarValues     == {0, 150}
LanguageCounts == {0, 2, 5}

CeloRepos == [stars : StarValues, contributionCount : 0..MaxCommits]
RepoLists == UNION {[1..n -> CeloRepos] : n \in 0..MaxRepos}

OracleAnswers ==
  [authentic : {Field(TRUE), Missing}, impactScore : {Field(-20), Field(130), Text("high")},
   qualityScore : {Missing, Field(60)}, authenticity : {Field(40), Field(130)},
   finalScore : {Field(0), Field(60)},
   recommendation : {Field("accept"), Field("reject"), Field("REJECT"), Missing}]

InitVerify ==
  /\ \E f \in FollowerValues, l \in LanguageCounts, cs \in RepoLists :
       analysis = MakeAnalysis(f, l, cs)
  /\ apiKey \in BOOLEAN
  /\ verifyPc = "start"
  /\ verdict = <<>>
  /\ oracleCalls = 0
  /\ oracleOutcome = "none"
  /\ ScoreIdle /\ TierIdle /\ AddrIdle /\ LedgerIdle /\ AgentIdle /\ WebIdle

\* verifyWithAI up to the request to the oracle
VerifyStart ==
  /\ verifyPc = "start"
  /\ IF ~apiKey
       THEN /\ verdict' = GenerateDefaultVerification(analysis)
            /\ verifyPc' = "done"
            /\ oracleOutcome' = "no_key"
            /\ UNCHANGED oracleCalls
       ELSE IF ~analysis.hasCeloContribution
         THEN /\ verdict' = NoCeloVerification
              /\ verifyPc' = "done"
              /\ UNCHANGED <<oracleCalls, oracleOutcome>>
         ELSE /\ oracleCalls' = oracleCalls + 1
              /\ verifyPc' = "awaitOracle"
              /\ UNCHANGED <<verdict, oracleOutcome>>
  /\ UNCHANGED <<analysis, apiKey>>
  /\ UNCHANGED outsideVerify

OracleFails_Reject ==
  /\ verifyPc = "awaitOracle"
  /\ \E f \in OracleFailures : oracleOutcome' = f
  /\ verdict' = NoCeloVerification
  /\ verifyPc' = "done"
  /\ UNCHANGED <<analysis, apiKey, oracleCalls>>
  /\ UNCHANGED outsideVerify

\* the request fails, or its answer holds no usable JSON: every such exit
\* returns generateDefaultVerification(analysis, contributionType)
OracleFails ==
  /\ verifyPc = "awaitOracle"
  /\ \E f \in OracleFailures : oracleOutcome' = f
  /\ verdict' = GenerateDefaultVerification(analysis)
  /\ verifyPc' = "done"
  /\ UNCHANGED <<analysis, apiKey, oracleCalls>>
  /\ UNCHANGED outsideVerify

\* the answer parses
OracleReplies ==
  /\ verifyPc = "awaitOracle"
  /\ \E r \in OracleAnswers : verdict' = ParsedVerification(r)
  /\ oracleOutcome' = "parsed"
  /\ verifyPc' = "done"
  /\ UNCHANGED <<analysis, apiKey, oracleCalls>>
  /\ UNCHANGED outsideVerify

NextVerify == VerifyStart \/ OracleFails \/ OracleReplies

SpecVerify == InitVerify /\ [][NextVerify]_vars

\* =================================================================
\* SpecAddr: the wallet check on bounded address strings
\* =================================================================
HexStrings == [1..AddrLen -> HexChars]
\* what a request may carry: hex strings, and strings that are no address
ProvidedStrings ==
  HexStrings \cup [1..AddrLen -> AnyChars] \cup [1..(AddrLen - 1) -> HexChars]
CasePatterns == [1..AddrLen -> BOOLEAN]

InitAddr ==
  /\ address \in ProvidedStrings
  /\ bioWallet \in HexStrings \cup {NoAddr}
  /\ keccakUpper \in
       [{ToLowerCase(x) : x \in {y \in {address, bioWallet} : IsHexAddress(y)}}
          -> CasePatterns]
  /\ analyzed = FALSE
  /\ detectedWallet = NoAddr
  /\ ownership = Unset
  /\ ScoreIdle /\ TierIdle /\ VerifyIdle /\ LedgerIdle /\ AgentIdle /\ WebIdle

\* analyzeGitHubLink: the bio match is validated and canonicalised
AnalyzeBio ==
  /\ ~analyzed
  /\ analyzed' = TRUE
  /\ detectedWallet' = NormalizedBioWallet(bioWallet, keccakUpper)
  /\ UNCHANGED <<address, bioWallet, keccakUpper, ownership>>
  /\ UNCHANGED outsideAddr

\* POST: the wallet check
VerifyOwnership ==
  /\ analyzed
  /\ ownership = Unset
  /\ ownership' = OwnershipCheck(address, detectedWallet, keccakUpper)
  /\ UNCHANGED <<address, bioWallet, keccakUpper, analyzed, detectedWallet>>
  /\ UNCHANGED outsideAddr

NextAddr == AnalyzeBio \/ VerifyOwnership

SpecAddr == InitAddr /\ [][NextAddr]_vars

\* =================================================================
\* Spec: runAgent and executeOnchain, NumProcs runs against one ledger
\* =================================================================
NumProcs == 2
Procs == 1..NumProcs
Users == {WalletLower}
InitialScores == {85, 120}

PlainDescription ==
  [spam |-> FALSE, major |-> FALSE, security |-> FALSE, refactor |-> FALSE, detailed |-> FALSE]
\* deltas 20, 10 and 22
AgentContributions ==
  {[user |-> u, type |-> "PR_MERGED", description |-> PlainDescription] : u \in Users}
  \cup {[user |-> u, type |-> "PR_MERGED",
         description |-> [PlainDescription EXCEPT !.spam = TRUE]] : u \in Users}
  \cup {[user |-> u, type |-> "BUG_FIX",
         description |-> [PlainDescription EXCEPT !.major = TRUE]] : u \in Users}

EmptyResult == [success |-> FALSE, registryTx |-> NoTx, scoreTx |-> NoTx,
                badgeTx |-> NoTx, error |-> Null]
NoCalls == [register |-> 0, increase |-> 0, mint |-> 0]

InitLedger ==
  /\ usedProofs = {}
  /\ chainScore \in [Users -> InitialScores]
  /\ minted = {}
  /\ txCount = 0
  /\ calls = [p \in Procs |-> NoCalls]

Init ==
  /\ InitLedger
  /\ contribution \in [Procs -> AgentContributions]
  /\ agentPc = [p \in Procs |-> "start"]
  /\ scoreDelta = [p \in Procs |-> 0]
  /\ currentTotal = [p \in Procs |-> 0]
  /\ newTotal = [p \in Procs |-> 0]
  /\ result = [p \in Procs |-> EmptyResult]
  /\ failedStep = [p \in Procs |-> "none"]
  /\ ScoreIdle /\ TierIdle /\ VerifyIdle /\ AddrIdle /\ WebIdle

\* a run whose failure escapes the catch blocks: it ends and nothing is
\* reported in its result
Fail_Raises(p, step, cause) ==
  /\ result' = result
  /\ failedStep' = [failedStep EXCEPT ![p] = step]
  /\ agentPc' = [agentPc EXCEPT ![p] = "done"]

\* the catch blocks of executeOnchain and runAgent: only the message is kept
Fail(p, step, cause) ==
  /\ result' = [result EXCEPT ![p].error = cause]
  /\ failedStep' = [failedStep EXCEPT ![p] = step]
  /\ agentPc' = [agentPc EXCEPT ![p] = "done"]

\* runAgent lines 15-31: the score is computed and the current total read
ReadScore(p) ==
  /\ agentPc[p] = "start"
  /\ scoreDelta' = [scoreDelta EXCEPT ![p] = CalculateScore(contribution[p])]
  /\ currentTotal' = [currentTotal EXCEPT ![p] = chainScore[contribution[p].user]]
  /\ newTotal' = [newTotal EXCEPT ![p] =
                    chainScore[contribution[p].user] + CalculateScore(contribution[p])]
  /\ agentPc' = [agentPc EXCEPT ![p] = "register"]
  /\ UNCHANGED <<contribution, result, failedStep, ledgerVars>>
  /\ UNCHANGED outsideAgent

\* runAgent lines 61-68: getScore throws
ReadScoreFails(p) ==
  /\ agentPc[p] = "start"
  /\ \E cause \in Causes : Fail(p, "Scoring", cause)
  /\ UNCHANGED <<contribution, scoreDelta, currentTotal, newTotal, ledgerVars>>
  /\ UNCHANGED outsideAgent

\* executeOnchain step 2, confirmed
Register(p) ==
  /\ agentPc[p] = "register"
  /\ RegistryAccepts(usedProofs, ProofHash(contribution[p]))
  /\ usedProofs' = usedProofs \cup {ProofHash(contribution[p])}
  /\ txCount' = txCount + 1
  /\ calls' = [calls EXCEPT ![p].register = @ + 1]
  /\ result' = [result EXCEPT ![p].registryTx = TxHash(txCount + 1)]
  /\ agentPc' = [agentPc EXCEPT ![p] = "score"]
  /\ UNCHANGED <<chainScore, minted, contribution, scoreDelta, currentTotal, newTotal, failedStep>>
  /\ UNCHANGED outsideAgent

RegisterFails_Continue(p) ==
  /\ agentPc[p] = "register"
  /\ calls' = [calls EXCEPT ![p].register = @ + 1]
  /\ \E cause \in Causes : result' = [result EXCEPT ![p].error = cause]
  /\ failedStep' = [failedStep EXCEPT ![p] = "Registering"]
  /\ agentPc' = [agentPc EXCEPT ![p] = "score"]
  /\ UNCHANGED <<usedProofs, chainScore, minted, txCount>>
  /\ UNCHANGED <<contribution, scoreDelta, currentTotal, newTotal>>
  /\ UNCHANGED outsideAgent

\* executeOnchain step 2: the call or its wait throws (a used proof always does)
RegisterFails(p) ==
  /\ agentPc[p] = "register"
  /\ calls' = [calls EXCEPT ![p].register = @ + 1]
  /\ \E cause \in Causes :
       /\ ~RegistryAccepts(usedProofs, ProofHash(contribution[p])) => cause = "execution reverted"
       /\ Fail(p, "Registering", cause)
  /\ UNCHANGED <<usedProofs, chainScore, minted, txCount>>
  /\ UNCHANGED <<contribution, scoreDelta, currentTotal, newTotal>>
  /\ UNCHANGED outsideAgent

\* executeOnchain step 3, confirmed
IncreaseScore(p) ==
  /\ agentPc[p] = "score"
  /\ chainScore' = [chainScore EXCEPT ![contribution[p].user] = @ + scoreDelta[p]]
  /\ txCount' = txCount + 1
  /\ calls' = [calls EXCEPT ![p].increase = @ + 1]
  /\ result' = [result EXCEPT ![p].scoreTx = TxHash(txCount + 1)]
  /\ agentPc' = [agentPc EXCEPT ![p] = "badge"]
  /\ UNCHANGED <<usedProofs, minted, contribution, scoreDelta, currentTotal, newTotal, failedStep>>
  /\ UNCHANGED outsideAgent

IncreaseScoreFails_Rollback(p) ==
  /\ agentPc[p] = "score"
  /\ calls' = [calls EXCEPT ![p].increase = @ + 1]
  /\ usedProofs' = usedProofs \ {ProofHash(contribution[p])}
  /\ \E cause \in Causes : Fail(p, "ScoreUpdating", cause)
  /\ UNCHANGED <<chainScore, minted, txCount>>
  /\ UNCHANGED <<contribution, scoreDelta, currentTotal, newTotal>>
  /\ UNCHANGED outsideAgent

\* executeOnchain step 3: the call or its wait throws
IncreaseScoreFails(p) ==
  /\ agentPc[p] = "score"
  /\ calls' = [calls EXCEPT ![p].increase = @ + 1]
  /\ \E cause \in Causes : Fail(p, "ScoreUpdating", cause)
  /\ UNCHANGED <<usedProofs, chainScore, minted, txCount>>
  /\ UNCHANGED <<contribution, scoreDelta, currentTotal, newTotal>>
  /\ UNCHANGED outsideAgent

\* executeOnchain step 4 when checkTierQualification(newTotalScore) is null
SkipBadge(p) ==
  /\ agentPc[p] = "badge"
  /\ CheckTierQualification(newTotal[p]) = Null
  /\ result' = [result EXCEPT ![p].success = TRUE]
  /\ agentPc' = [agentPc EXCEPT ![p] = "done"]
  /\ UNCHANGED <<contribution, scoreDelta, currentTotal, newTotal, failedStep, ledgerVars>>
  /\ UNCHANGED outsideAgent

\* executeOnchain step 4: the badge is minted and confirmed
MintBadge(p) ==
  /\ agentPc[p] = "badge"
  /\ CheckTierQualification(newTotal[p]) # Null
  /\ LET tier == CheckTierQualification(newTotal[p])
         user == contribution[p].user
     IN  minted' = minted \cup {[to |-> user, tokenId |-> AgentBadgeTokenId(user, tier),
                                 uri |-> BadgeUri(tier)]}
  /\ txCount' = txCount + 1
  /\ calls' = [calls EXCEPT ![p].mint = @ + 1]
  /\ result' = [result EXCEPT ![p].badgeTx = TxHash(txCount + 1), ![p].success = TRUE]
  /\ agentPc' = [agentPc EXCEPT ![p] = "done"]
  /\ UNCHANGED <<usedProofs, chainScore, contribution, scoreDelta, currentTotal, newTotal, failedStep>>
  /\ UNCHANGED outsideAgent

MintBadgeFails_Swallowed(p) ==
  /\ agentPc[p] = "badge"
  /\ CheckTierQualification(newTotal[p]) # Null
  /\ calls' = [calls EXCEPT ![p].mint = @ + 1]
  /\ result' = [result EXCEPT ![p].success = TRUE]
  /\ agentPc' = [agentPc EXCEPT ![p] = "done"]
  /\ UNCHANGED <<usedProofs, chainScore, minted, txCount, failedStep>>
  /\ UNCHANGED <<contribution, scoreDelta, currentTotal, newTotal>>
  /\ UNCHANGED outsideAgent

\* executeOnchain step 4: the mint call or its wait throws
MintBadgeFails(p) ==
  /\ agentPc[p] = "badge"
  /\ CheckTierQualification(newTotal[p]) # Null
  /\ calls' = [calls EXCEPT ![p].mint = @ + 1]
  /\ \E cause \in Causes : Fail(p, "Minting", cause)
  /\ UNCHANGED <<usedProofs, chainScore, minted, txCount>>
  /\ UNCHANGED <<contribution, scoreDelta, currentTotal, newTotal>>
  /\ UNCHANGED outsideAgent

Next ==
  \E p \in Procs :
    \/ ReadScore(p) \/ ReadScoreFails(p)
    \/ Register(p) \/ RegisterFails(p)
    \/ IncreaseScore(p) \/ IncreaseScoreFails(p)
    \/ SkipBadge(p) \/ MintBadge(p) \/ MintBadgeFails(p)

Spec == Init /\ [][Next]_vars

\* =================================================================
\* SpecLive: the same runs when a transaction may be dropped.  tx.wait()
\* is called without a timeout (executor.ts lines 37, 44, 67) and nothing
\* races it with a timer, so a run whose transaction is never mined stays at
\* that await ("hung").  Fairness: the event loop resumes a run once the
\* promise it awaits settles, so each run keeps taking the steps it has.
\* =================================================================
\* the transaction of the step a run stands at is submitted and never mined
ConfirmationLost(p) ==
  /\ agentPc[p] \in {"register", "score", "badge"}
  /\ agentPc[p] = "badge" => CheckTierQualification(newTotal[p]) # Null
  /\ calls' = [calls EXCEPT ![p] =
       CASE agentPc[p] = "register" -> [@ EXCEPT !.register = @ + 1]
         [] agentPc[p] = "score" -> [@ EXCEPT !.increase = @ + 1]
         [] agentPc[p] = "badge" -> [@ EXCEPT !.mint = @ + 1]]
  /\ agentPc' = [agentPc EXCEPT ![p] = "hung"]
  /\ UNCHANGED <<usedProofs, chainScore, minted, txCount>>
  /\ UNCHANGED <<contribution, scoreDelta, currentTotal, newTotal, result, failedStep>>
  /\ UNCHANGED outsideAgent

AgentStep(p) ==
  \/ ReadScore(p) \/ ReadScoreFails(p)
  \/ Register(p) \/ RegisterFails(p)
  \/ IncreaseScore(p) \/ IncreaseScoreFails(p)
  \/ SkipBadge(p) \/ MintBadge(p) \/ MintBadgeFails(p)
  \/ ConfirmationLost(p)

NextLive == \E p \in Procs : AgentStep(p)

SpecLive == Init /\ [][NextLive]_vars /\ \A p \in Procs : WF_vars(AgentStep(p))

\* =================================================================
\* SpecWeb: handleSubmit posting to /api/contributions/submit, then
\* writing to the ledger; NumSessions runs against one store and ledger.
\* The store is up: its writes succeed, and of its reads getUserTier may fail.
\* Every ledger call may fail.
\* =================================================================
NumSessions == 2
Sessions == 1..NumSessions

GoodLink == "https://github.com/alice"
BadLink == "alice"

\* the body handleSubmit sends (lines 170-176): the type is always PR_MERGED
Body(addr, link) == [address |-> addr, type |-> "PR_MERGED", link |-> link]
Requests ==
  {Body(a, GoodLink) : a \in {WalletLower, WalletUpper, OtherWallet, NotAnAddress, NoAddr}}
  \cup {Body(WalletLower, BadLink)}

\* analyzeGitHubLink: /github\.com\/([a-zA-Z0-9-]+)/ matches the link
LinkMatches(link) == link = GoodLink

\* the profiles behind GoodLink
WebAnalyses ==
  {MakeAnalysis(0, 0, <<>>),
   MakeAnalysis(0, 0, <<[stars |-> 0, contributionCount |-> 0]>>),
   MakeAnalysis(70, 5, <<[stars |-> 150, contributionCount |-> 1]>>)}

\* parsed oracle answers
GoodAnswer ==
  [authentic |-> Field(TRUE), impactScore |-> Field(80), qualityScore |-> Field(70),
   authenticity |-> Field(95), finalScore |-> Field(80), recommendation |-> Field("accept")]
WebOracleAnswers ==
  {GoodAnswer, [GoodAnswer EXCEPT !.finalScore = Field(0)],
   [GoodAnswer EXCEPT !.recommendation = Field("reject")]}

\* verifyWithAI: TRUE when the request to the oracle is sent
OracleConsulted(a, key) == key /\ a.hasCeloContribution

\* verifyWithAI: the results it can return for an analysis
VerifyOutcomes(a, key) ==
  IF ~key THEN {GenerateDefaultVerification(a)}
  ELSE IF ~a.hasCeloContribution THEN {NoCeloVerification}
  ELSE {GenerateDefaultVerification(a)} \cup {ParsedVerification(r) : r \in WebOracleAnswers}

\* the key of an address in the store and on the ledger
UserKey(addr) == ToLowerCase(addr)
WebUsers == {UserKey(WalletLower), UserKey(OtherWallet)}

NoRow == <<>>

\* a time stamp names the run whose tier update wrote it
NoStamp == <<>>
Stamp(s) == <<s>>
OrNow(stamp, now) == IF stamp = NoStamp THEN now ELSE stamp
EmptyTierRow ==
  [current_tier |-> "UNRANKED", total_score |-> 0, updated_at |-> NoStamp,
   builder_achieved_at |-> NoStamp,
   contributor_achieved_at |-> NoStamp, leader_achieved_at |-> NoStamp]

\* supabase.ts updateUserTier: the row written over the existing one
TierRow(existing, newScore, newTier, now) ==
  LET old == IF existing = NoRow THEN EmptyTierRow ELSE existing
      fresh == existing = NoRow
  IN  [current_tier |-> newTier,
       total_score |-> newScore,
       updated_at |-> now,
       builder_achieved_at |->
         IF newTier = "BUILDER" /\ (fresh \/ old.current_tier = "UNRANKED") THEN now
         ELSE IF newTier = "CONTRIBUTOR" /\ (fresh \/ old.current_tier # "CONTRIBUTOR")
           THEN OrNow(old.builder_achieved_at, now)
         ELSE IF newTier = "LEADER" THEN OrNow(old.builder_achieved_at, now)
         ELSE old.builder_achieved_at,
       contributor_achieved_at |->
         IF newTier = "CONTRIBUTOR" /\ (fresh \/ old.current_tier # "CONTRIBUTOR") THEN now
         ELSE IF newTier = "LEADER" THEN OrNow(old.contributor_achieved_at, now)
         ELSE old.contributor_achieved_at,
       leader_achieved_at |->
         IF newTier = "LEADER" THEN now ELSE old.leader_achieved_at]
InitialTotals == {0, 90}

NoPost == [finalScore |-> NoValue, recommendation |-> Unset, status |-> Unset,
           currentTotalScore |-> NoValue, newTotalScore |-> NoValue, newTier |-> Unset]
NoClient == [increaseTx |-> NoTx, onChain |-> "none", txHash |-> NoTx,
             verifiedScore |-> NoValue, marked |-> Unset,
             badge |-> "none", badgeTx |-> NoTx]

InitWeb ==
  /\ request \in [Sessions -> Requests]
  /\ webPc = [s \in Sessions |-> "submit"]
  /\ post = [s \in Sessions |-> NoPost]
  /\ response = [s \in Sessions |-> <<>>]
  /\ client = [s \in Sessions |-> NoClient]
  /\ identityCalls = [s \in Sessions |-> 0]
  \* the store and the ledger agree on the total the address starts with
  /\ \E t \in InitialTotals :
       /\ userTiers = [u \in WebUsers |->
                         IF t = 0 THEN NoRow
                         ELSE [EmptyTierRow EXCEPT !.current_tier = RouteNewTier(t),
                                                   !.total_score = t]]
       /\ chainScore = [u \in WebUsers |-> t]
  /\ contributions = <<>>
  /\ history = <<>>
  /\ usedProofs = {} /\ minted = {} /\ txCount = 0
  /\ calls = [s \in Sessions |-> NoCalls]
  \* the profile behind GoodLink and the oracle key
  /\ analysis \in WebAnalyses
  /\ apiKey \in BOOLEAN
  /\ verifyPc = "idle" /\ verdict = <<>> /\ oracleCalls = 0 /\ oracleOutcome = "none"
  /\ bioWallet \in {WalletLower, NoAddr}
  /\ keccakUpper = [x \in {WalletLower, OtherWallet} |-> [i \in 1..AddrLen |-> i = 1]]
  /\ address = <<>> /\ analyzed = FALSE /\ detectedWallet = <<>> /\ ownership = Unset
  /\ ScoreIdle /\ TierIdle /\ AgentIdle

verifyFrame == <<verifyPc, verdict, oracleOutcome, analysis, apiKey, address, bioWallet, keccakUpper,
              analyzed, detectedWallet, ownership, usedProofs>>
webFrame == <<verifyFrame, identityCalls>>

\* POST answers with a status that is not 2xx; handleSubmit returns (lines 181-186)
Rejected(s, why) ==
  /\ response' = [response EXCEPT ![s] = [ok |-> FALSE, error |-> why]]
  /\ webPc' = [webPc EXCEPT ![s] = "done"]

\* POST lines 78-118: the locals once the verifier has returned ai
Scored(s, ai, below) ==
  [post[s] EXCEPT
     !.finalScore = CalculateFinalScore(ai, BASE_SCORES[request[s].type], TRUE, below),
     !.recommendation = ai.recommendation,
     !.status = IF ai.recommendation = "accept" THEN "verified" ELSE "pending"]

PostCheck_NoGate(s) ==
  /\ webPc[s] = "submit"
  /\ identityCalls' = [identityCalls EXCEPT ![s] =
       IF request[s].address # NoAddr /\ LinkMatches(request[s].link) THEN @ + 1 ELSE @]
  /\ LET r == request[s]
         detected == NormalizedBioWallet(bioWallet, keccakUpper)
         wallet == OwnershipCheck(r.address, detected, keccakUpper)
     IN  IF r.address = NoAddr
           THEN Rejected(s, "required") /\ UNCHANGED <<post, oracleCalls>>
         ELSE IF ~LinkMatches(r.link)
           THEN Rejected(s, "analysis") /\ UNCHANGED <<post, oracleCalls>>
         ELSE IF wallet # "verified"
           THEN Rejected(s, wallet) /\ UNCHANGED <<post, oracleCalls>>
         ELSE
           /\ oracleCalls' = oracleCalls + (IF OracleConsulted(analysis, apiKey) THEN 1 ELSE 0)
           /\ \E ai \in VerifyOutcomes(analysis, apiKey), below \in BOOLEAN :
                /\ post' = [post EXCEPT ![s] = Scored(s, ai, below)]
                /\ webPc' = [webPc EXCEPT ![s] = "save"]
                /\ UNCHANGED response
  /\ UNCHANGED <<request, client, storeVars, chainScore, minted, txCount, calls>>
  /\ UNCHANGED verifyFrame
  /\ UNCHANGED outsideWeb

\* POST lines 11-115: the checks, the analysis, the verifier, the score, the gate
PostCheck(s) ==
  /\ webPc[s] = "submit"
  /\ identityCalls' = [identityCalls EXCEPT ![s] =
       IF request[s].address # NoAddr /\ LinkMatches(request[s].link) THEN @ + 1 ELSE @]
  /\ LET r == request[s]
         detected == NormalizedBioWallet(bioWallet, keccakUpper)
         wallet == OwnershipCheck(r.address, detected, keccakUpper)
     IN  IF r.address = NoAddr
           THEN Rejected(s, "required") /\ UNCHANGED <<post, oracleCalls>>
         ELSE IF ~LinkMatches(r.link)
           THEN Rejected(s, "analysis") /\ UNCHANGED <<post, oracleCalls>>
         ELSE IF wallet # "verified"
           THEN Rejected(s, wallet) /\ UNCHANGED <<post, oracleCalls>>
         ELSE
           /\ oracleCalls' = oracleCalls + (IF OracleConsulted(analysis, apiKey) THEN 1 ELSE 0)
           /\ \E ai \in VerifyOutcomes(analysis, apiKey), below \in BOOLEAN :
                /\ post' = [post EXCEPT ![s] = Scored(s, ai, below)]
                /\ IF post'[s].finalScore = 0 \/ ai.recommendation = "reject"
                     THEN Rejected(s, "policy")
                     ELSE /\ webPc' = [webPc EXCEPT ![s] = "save"]
                          /\ UNCHANGED response
  /\ UNCHANGED <<request, client, storeVars, chainScore, minted, txCount, calls>>
  /\ UNCHANGED verifyFrame
  /\ UNCHANGED outsideWeb

\* POST: the identity source does not answer (analyzeGitHubLink returns null)
PostAnalysisFails(s) ==
  /\ webPc[s] = "submit"
  /\ request[s].address # NoAddr
  /\ LinkMatches(request[s].link)
  /\ identityCalls' = [identityCalls EXCEPT ![s] = @ + 1]
  /\ Rejected(s, "analysis")
  /\ UNCHANGED <<request, post, client, storeVars, oracleCalls, chainScore, minted, txCount, calls>>
  /\ UNCHANGED verifyFrame
  /\ UNCHANGED outsideWeb

\* supabase.ts saveContribution: the row is inserted as pending
PostSave(s) ==
  /\ webPc[s] = "save"
  /\ contributions' = Append(contributions,
                             [user_address |-> UserKey(request[s].address),
                              score |-> post[s].finalScore, status |-> "pending",
                              on_chain_tx |-> NoTx, by |-> s])
  /\ webPc' = [webPc EXCEPT ![s] = "readTier"]
  /\ UNCHANGED <<request, post, response, client, userTiers, history>>
  /\ UNCHANGED <<oracleCalls, chainScore, minted, txCount, calls>>
  /\ UNCHANGED webFrame
  /\ UNCHANGED outsideWeb

\* POST lines 151-158: getUserTier, then the new total and its tier
PostReadTier(s) ==
  /\ webPc[s] = "readTier"
  /\ \E ok \in BOOLEAN :
       LET row == userTiers[UserKey(request[s].address)]
           currentTotalScore == IF ok /\ row # NoRow THEN row.total_score ELSE 0
           newTotalScore == currentTotalScore + post[s].finalScore
       IN  post' = [post EXCEPT ![s].currentTotalScore = currentTotalScore,
                                ![s].newTotalScore = newTotalScore,
                                ![s].newTier = RouteNewTier(newTotalScore)]
  /\ webPc' = [webPc EXCEPT ![s] = "writeTier"]
  /\ UNCHANGED <<request, response, client, storeVars>>
  /\ UNCHANGED <<oracleCalls, chainScore, minted, txCount, calls>>
  /\ UNCHANGED webFrame
  /\ UNCHANGED outsideWeb

\* POST line 160: updateUserTier
PostWriteTier(s) ==
  /\ webPc[s] = "writeTier"
  /\ LET u == UserKey(request[s].address)
     IN  userTiers' = [userTiers EXCEPT ![u] =
           TierRow(userTiers[u], post[s].newTotalScore, post[s].newTier, Stamp(s))]
  /\ webPc' = [webPc EXCEPT ![s] = "history"]
  /\ UNCHANGED <<request, post, response, client, contributions, history>>
  /\ UNCHANGED <<oracleCalls, chainScore, minted, txCount, calls>>
  /\ UNCHANGED webFrame
  /\ UNCHANGED outsideWeb

\* POST lines 166-185: recordReputationHistory, then the answer.  handleSubmit
\* goes on to the ledger when the score is positive and not rejected (line 213).
PostHistory(s) ==
  /\ webPc[s] = "history"
  /\ history' = Append(history,
                       [user_address |-> UserKey(request[s].address),
                        score_delta |-> post[s].finalScore,
                        total_score |-> post[s].newTotalScore, by |-> s])
  /\ response' = [response EXCEPT ![s] =
       [ok |-> TRUE, error |-> Null, score |-> post[s].finalScore,
        newTotalScore |-> post[s].newTotalScore, newTier |-> post[s].newTier,
        recommendation |-> post[s].recommendation, status |-> post[s].status]]
  /\ webPc' = [webPc EXCEPT ![s] =
       IF post[s].finalScore > 0 /\ post[s].recommendation # "reject"
         THEN "increase" ELSE "done"]
  /\ UNCHANGED <<request, post, client, contributions, userTiers>>
  /\ UNCHANGED <<oracleCalls, chainScore, minted, txCount, calls>>
  /\ UNCHANGED webFrame
  /\ UNCHANGED outsideWeb

\* contract-interaction.ts updateOnChainScore lines 37-43: increase is
\* submitted and confirmed.  No registry call precedes it.
ClientIncrease(s) ==
  /\ webPc[s] = "increase"
  /\ chainScore' = [chainScore EXCEPT ![UserKey(request[s].address)] = @ + response[s].score]
  /\ txCount' = txCount + 1
  /\ calls' = [calls EXCEPT ![s].increase = @ + 1]
  /\ client' = [client EXCEPT ![s].increaseTx = TxHash(txCount + 1)]
  /\ webPc' = [webPc EXCEPT ![s] = "readback"]
  /\ UNCHANGED <<request, post, response, storeVars, oracleCalls, minted>>
  /\ UNCHANGED webFrame
  /\ UNCHANGED outsideWeb

\* updateOnChainScore: increase or its wait throws; handleSubmit records the
\* error and ends (lines 296-302)
ClientIncreaseFails(s) ==
  /\ webPc[s] = "increase"
  /\ calls' = [calls EXCEPT ![s].increase = @ + 1]
  /\ client' = [client EXCEPT ![s].onChain = "failed"]
  /\ webPc' = [webPc EXCEPT ![s] = "done"]
  /\ UNCHANGED <<request, post, response, storeVars, oracleCalls, chainScore, minted, txCount>>
  /\ UNCHANGED webFrame
  /\ UNCHANGED outsideWeb

\* updateOnChainScore lines 48-64: the score is read back; a read that
\* throws lands in the catch and the call reports failure
ClientReadback(s) ==
  /\ webPc[s] = "readback"
  /\ \E ok \in BOOLEAN :
       IF ok
         THEN /\ client' = [client EXCEPT ![s].onChain = "ok",
                                          ![s].txHash = client[s].increaseTx]
              /\ webPc' = [webPc EXCEPT ![s] = "verify"]
         ELSE /\ client' = [client EXCEPT ![s].onChain = "failed"]
              /\ webPc' = [webPc EXCEPT ![s] = "done"]
  /\ UNCHANGED <<request, post, response, storeVars, oracleCalls>>
  /\ UNCHANGED <<chainScore, minted, txCount, calls>>
  /\ UNCHANGED webFrame
  /\ UNCHANGED outsideWeb

\* handleSubmit lines 224-242: getOnChainScore, shown as the user's total
ClientVerify(s) ==
  /\ webPc[s] = "verify"
  /\ client' = [client EXCEPT ![s].verifiedScore = chainScore[UserKey(request[s].address)]]
  /\ webPc' = [webPc EXCEPT ![s] = "mark"]
  /\ UNCHANGED <<request, post, response, storeVars, oracleCalls>>
  /\ UNCHANGED <<chainScore, minted, txCount, calls>>
  /\ UNCHANGED webFrame
  /\ UNCHANGED outsideWeb

\* supabase.ts updateContributionWithTx: the rows it selects, newest first
PendingWithScore(rows, user, score) ==
  {i \in DOMAIN rows :
     rows[i].user_address = user /\ rows[i].score = score /\ rows[i].status = "pending"}
MostRecent(indices) == CHOOSE i \in indices : \A j \in indices : j <= i

\* handleSubmit line 245: updateContributionWithTx
ClientMark(s) ==
  /\ webPc[s] = "mark"
  /\ LET pending == PendingWithScore(contributions, UserKey(request[s].address),
                                     response[s].score)
     IN  IF pending # {}
           THEN /\ contributions' =
                     [contributions EXCEPT ![MostRecent(pending)].status = "verified",
                                           ![MostRecent(pending)].on_chain_tx = client[s].txHash]
                /\ client' = [client EXCEPT ![s].marked = "verified"]
           ELSE /\ UNCHANGED contributions
                /\ client' = [client EXCEPT ![s].marked = "failed"]
  /\ webPc' = [webPc EXCEPT ![s] = "badge"]
  /\ UNCHANGED <<request, post, response, userTiers, history, oracleCalls>>
  /\ UNCHANGED <<chainScore, minted, txCount, calls>>
  /\ UNCHANGED webFrame
  /\ UNCHANGED outsideWeb

\* handleSubmit line 273: the total POST answered with is below 100
ClientSkipBadge(s) ==
  /\ webPc[s] = "badge"
  /\ ~(response[s].newTotalScore >= 100)
  /\ webPc' = [webPc EXCEPT ![s] = "done"]
  /\ UNCHANGED <<request, post, response, client, storeVars, oracleCalls>>
  /\ UNCHANGED <<chainScore, minted, txCount, calls>>
  /\ UNCHANGED webFrame
  /\ UNCHANGED outsideWeb

\* badge-minting.ts mintBadge: the badge of getTierForScore(totalScore) is
\* minted and confirmed
ClientMint(s) ==
  /\ webPc[s] = "badge"
  /\ response[s].newTotalScore >= 100
  /\ LET tier == GetTierForScore(response[s].newTotalScore)
     IN  /\ tier # Null
         /\ minted' = minted \cup
              {[to |-> UserKey(request[s].address),
                tokenId |-> WebBadgeTokenId(request[s].address, tier),
                uri |-> BadgeUri(tier)]}
  /\ txCount' = txCount + 1
  /\ calls' = [calls EXCEPT ![s].mint = @ + 1]
  /\ client' = [client EXCEPT ![s].badge = "minted", ![s].badgeTx = TxHash(txCount + 1)]
  /\ webPc' = [webPc EXCEPT ![s] = "done"]
  /\ UNCHANGED <<request, post, response, storeVars, oracleCalls, chainScore>>
  /\ UNCHANGED webFrame
  /\ UNCHANGED outsideWeb

\* mintBadge: mint or its wait throws
ClientMintFails(s) ==
  /\ webPc[s] = "badge"
  /\ response[s].newTotalScore >= 100
  /\ calls' = [calls EXCEPT ![s].mint = @ + 1]
  /\ client' = [client EXCEPT ![s].badge = "failed"]
  /\ webPc' = [webPc EXCEPT ![s] = "done"]
  /\ UNCHANGED <<request, post, response, storeVars, oracleCalls, chainScore, minted, txCount>>
  /\ UNCHANGED webFrame
  /\ UNCHANGED outsideWeb

NextWeb ==
  \E s \in Sessions :
    \/ PostCheck(s) \/ PostAnalysisFails(s)
    \/ PostSave(s) \/ PostReadTier(s) \/ PostWriteTier(s) \/ PostHistory(s)
    \/ ClientIncrease(s) \/ ClientIncreaseFails(s) \/ ClientReadback(s)
    \/ ClientVerify(s) \/ ClientMark(s)
    \/ ClientSkipBadge(s) \/ ClientMint(s) \/ ClientMintFails(s)

SpecWeb == InitWeb /\ [][NextWeb]_vars

\* =================================================================
\* SpecTierUpdates: POST lines 151-160 run by one accepted submission after
\* another for one address, from an empty store.  A time stamp is the
\* ordinal of the tier update that wrote it.
\* =================================================================
MaxUpdates == 13
TierUsers == {UserKey(WalletLower)}
\* final scores of accepted PR_MERGED submissions
SubmissionScores == {40, 60}

InitTierUpdates ==
  /\ userTiers = [u \in TierUsers |-> NoRow]
  /\ contributions = <<>> /\ history = <<>>
  /\ request = <<>> /\ webPc = <<>> /\ post = <<>> /\ response = <<>> /\ client = <<>>
  /\ identityCalls = <<>>
  /\ ScoreIdle /\ TierIdle /\ VerifyIdle /\ AddrIdle /\ LedgerIdle /\ AgentIdle

\* the ordinal of the next update of a row
NextOrdinal(row) == IF row = NoRow THEN 1 ELSE row.updated_at[1] + 1

\* POST lines 153-160: the row updateUserTier writes for the total read
RowAfter(row, currentTotalScore, score) ==
  LET newTotalScore == currentTotalScore + score
  IN  TierRow(row, newTotalScore, RouteNewTier(newTotalScore), Stamp(NextOrdinal(row)))

\* getUserTier returns the row, or no row for a new address
SubmissionReadsTier(u, score) ==
  /\ NextOrdinal(userTiers[u]) <= MaxUpdates
  /\ userTiers' = [userTiers EXCEPT ![u] =
        RowAfter(userTiers[u], IF userTiers[u] = NoRow THEN 0 ELSE userTiers[u].total_score,
                 score)]
  /\ UNCHANGED <<contributions, history, webVars, ledgerVars, verifyVars, addrVars>>
  /\ UNCHANGED outsideWeb

\* getUserTier fails: tier?.total_score || 0 is 0
SubmissionReadFails(u, score) ==
  /\ NextOrdinal(userTiers[u]) <= MaxUpdates
  /\ userTiers' = [userTiers EXCEPT ![u] = RowAfter(userTiers[u], 0, score)]
  /\ UNCHANGED <<contributions, history, webVars, ledgerVars, verifyVars, addrVars>>
  /\ UNCHANGED outsideWeb

NextTierUpdates ==
  \E u \in TierUsers, score \in SubmissionScores :
    \/ SubmissionReadsTier(u, score)
    \/ SubmissionReadFails(u, score)

SpecTierUpdates == InitTierUpdates /\ [][NextTierUpdates]_vars

\* =================================================================
\* SpecBadge: the arguments the two mint paths hand to the badge contract,
\* for bounded addresses in any letter case and every tier
\* =================================================================
MaxAttempts == 2
BadgeTiers == {"BUILDER", "CONTRIBUTOR", "LEADER"}

InitBadge ==
  /\ minted = {}
  /\ usedProofs = {} /\ chainScore = <<>> /\ txCount = 0 /\ calls = <<>>
  /\ ScoreIdle /\ TierIdle /\ VerifyIdle /\ AddrIdle /\ AgentIdle /\ WebIdle

\* executeOnchain lines 57-66: the uri, the token id, the mint
AgentMintAttempt(userAddress, tier) ==
  /\ Cardinality(minted) < MaxAttempts
  /\ minted' = minted \cup {[to |-> ToLowerCase(userAddress),
                              tokenId |-> AgentBadgeTokenId(userAddress, tier),
                              uri |-> BadgeUri(tier)]}
  /\ UNCHANGED <<usedProofs, chainScore, txCount, calls>>
  /\ UNCHANGED <<verifyVars, addrVars, webVars, storeVars>>
  /\ UNCHANGED outsideWeb

\* mintBadge lines 124-130: the uri, the token id, the mint
WebMintAttempt(userAddress, tier) ==
  /\ Cardinality(minted) < MaxAttempts
  /\ minted' = minted \cup {[to |-> ToLowerCase(userAddress),
                              tokenId |-> WebBadgeTokenId(userAddress, tier),
                              uri |-> BadgeUri(tier)]}
  /\ UNCHANGED <<usedProofs, chainScore, txCount, calls>>
  /\ UNCHANGED <<verifyVars, addrVars, webVars, storeVars>>
  /\ UNCHANGED outsideWeb

NextBadge ==
  \E userAddress \in HexStrings, tier \in BadgeTiers :
    \/ AgentMintAttempt(userAddress, tier)
    \/ WebMintAttempt(userAddress, tier)

SpecBadge == InitBadge /\ [][NextBadge]_vars

\* =================================================================
\* Properties
\* =================================================================

\* C1: for every activity signal whose ecosystem commit total is 0, the
\* verifier returns recommendation reject and finalScore 0, and the oracle
\* is never called.
C1_ZeroCommitsRejected ==
  (verifyPc # "idle" /\ analysis.celoContributionCount = 0) =>
    /\ oracleCalls = 0
    /\ verifyPc = "done" =>
         verdict.recommendation = "reject" /\ verdict.finalScore = 0

\* C2: for every base score of BASE_SCORES, every opinion with impact,
\* quality and authenticity in 0..100 and either ownership flag, the value
\* returned by calculateFinalScore lies in [0, 3 x baseScore], and raising
\* impact, quality or authenticity alone never lowers it.
C2_BoundedMonotone ==
  finalScore # NoValue =>
    /\ finalScore >= 0
    /\ finalScore <= 3 * BASE_SCORES[ctype]
    /\ \A v \in ScoreGrid, b \in BOOLEAN :
         /\ v > aiResult.impactScore =>
              CalculateFinalScore([aiResult EXCEPT !.impactScore = v],
                                  BASE_SCORES[ctype], walletVerified, b) >= finalScore
         /\ v > aiResult.qualityScore =>
              CalculateFinalScore([aiResult EXCEPT !.qualityScore = v],
                                  BASE_SCORES[ctype], walletVerified, b) >= finalScore
         /\ v > aiResult.authenticity =>
              CalculateFinalScore([aiResult EXCEPT !.authenticity = v],
                                  BASE_SCORES[ctype], walletVerified, b) >= finalScore

\* a computed score that raising the impact strictly raises
C2_Witness ==
  /\ finalScore # NoValue /\ finalScore > 0
  /\ \E v \in ScoreGrid :
       /\ v > aiResult.impactScore
       /\ CalculateFinalScore([aiResult EXCEPT !.impactScore = v],
                               BASE_SCORES[ctype], walletVerified, ulpBelow) > finalScore

\* The reference function of the specification: rounded, then capped.
RefFinalScore(ai, baseScore, ownershipVerified, below) ==
  CASE ai.recommendation = "reject" -> 0
    [] ai.finalScore = 0 -> 0
    [] OTHER ->
         IF ai.authentic = FALSE
           THEN (baseScore + 2) \div 4
           ELSE Min(JsRound(baseScore * (150 + ai.impactScore) * (160 + ai.qualityScore)
                                      * (200 + ai.authenticity),
                            IF ownershipVerified THEN 4000000 ELSE 4800000, below),
                    3 * baseScore)

ExampleOpinion ==
  [authentic |-> TRUE, impactScore |-> 80, qualityScore |-> 70, authenticity |-> 95,
   finalScore |-> 82, recommendation |-> "accept"]

StepTier(score) ==
  CASE score < 100 -> "UNRANKED"
    [] score >= 100 /\ score <= 299 -> "BUILDER"
    [] score >= 300 /\ score <= 699 -> "CONTRIBUTOR"
    [] score >= 700 -> "LEADER"

Canon(tier) == IF tier = Null THEN "UNRANKED" ELSE tier

\* C4: tier resolution is the step function below 100 UNRANKED, 100..299
\* BUILDER, 300..699 CONTRIBUTOR, 700 and above LEADER, and every resolver
\* of the code returns that tier for every score, null read as UNRANKED.
C4_TierStepFunction ==
  \A r \in DOMAIN tierOf :
    tierOf[r] # Unset => Canon(tierOf[r]) = StepTier(totalScore)

\* all four resolvers have answered at a threshold score
C4_Witness ==
  /\ totalScore \in {100, 300, 700}
  /\ DOMAIN tierOf = Resolvers
  /\ \A r \in Resolvers : tierOf[r] # Unset

\* an address ethers.getAddress accepts
WellFormed(s) == IsHexAddress(s) /\ GetAddress(s, keccakUpper) # NoAddr

\* C9: two well-formed addresses with the same hex digits, whatever the
\* letter case of each, pass the route's ownership check: the submission
\* is not rejected for a mismatch (nor for any other wallet reason).
C9_CaseInsensitiveOwnership ==
  (/\ ownership # Unset
   /\ WellFormed(address) /\ WellFormed(bioWallet)
   /\ ToLowerCase(address) = ToLowerCase(bioWallet))
     => ownership = "verified"

\* the same digits written in different case have been accepted
C9_Witness ==
  /\ ownership = "verified"
  /\ address # bioWallet
  /\ \E i \in DOMAIN address : address[i] \in {"a", "A"}

\* C6: when the score-increase step fails after the registry step was
\* confirmed, the result has success = false, registryTx set, scoreTx and
\* badgeTx absent, the run has submitted no mint call, and the proof it
\* registered is still recorded by the registry.
C6_ScoreStepFailure ==
  \A p \in Procs :
    failedStep[p] = "ScoreUpdating" =>
      /\ agentPc[p] = "done"
      /\ result[p].success = FALSE
      /\ result[p].registryTx # NoTx
      /\ result[p].scoreTx = NoTx
      /\ result[p].badgeTx = NoTx
      /\ result[p].error \in Causes
      /\ calls[p].mint = 0
      /\ ProofHash(contribution[p]) \in usedProofs

C6_Witness ==
  \E p \in Procs :
    /\ failedStep[p] = "ScoreUpdating"
    /\ calls[p].register = 1 /\ calls[p].increase = 1
    /\ result[p].registryTx # NoTx

\* C7: a failed ExecutionResult tells which step failed: two failed runs
\* that ended at different steps never return equal results.
C7_FailureNamesStep ==
  \A p, q \in Procs :
    (failedStep[p] # "none" /\ failedStep[q] # "none" /\ result[p] = result[q])
      => failedStep[p] = failedStep[q]

\* C8: a run submits a mint call only when its new total lies in another
\* tier than the total it started from.
C8_MintOnlyOnNewTier ==
  \A p \in Procs :
    calls[p].mint > 0 =>
      CheckTierQualification(newTotal[p]) # CheckTierQualification(currentTotal[p])

\* C5: two runs that submit the same payload never both get their score
\* increase confirmed.
C5_SamePayloadOneIncrease ==
  \A s, t \in Sessions :
    (s # t /\ request[s] = request[t])
      => ~(client[s].increaseTx # NoTx /\ client[t].increaseTx # NoTx)

\* C10: a submission whose computed delta is 0 or whose recommendation is
\* reject is answered with a rejection and ends there: it has made no
\* ledger call and no contribution, tier or history row comes from it.
C10_RejectedAtBoundary ==
  \A s \in Sessions :
    (post[s].finalScore = 0 \/ post[s].recommendation = "reject") =>
      /\ webPc[s] = "done"
      /\ response[s].ok = FALSE
      /\ calls[s] = NoCalls
      /\ \A i \in DOMAIN contributions : contributions[i].by # s
      /\ \A i \in DOMAIN history : history[i].by # s
      /\ \A u \in WebUsers : userTiers[u] # NoRow => userTiers[u].updated_at # Stamp(s)

C10_Witness ==
  \E s, t \in Sessions :
    /\ post[s].finalScore = 0 /\ post[s].recommendation = "accept"
    /\ response[s] # <<>> /\ ~response[s].ok
    /\ post[t].recommendation = "reject" /\ webPc[t] = "done"

\* C11: whenever executeOnchain returns success = true, registryTx and
\* scoreTx are both present and badgeTx is present exactly when the run's
\* mint call was submitted and confirmed; and no run ever submits more than
\* one registry call, one score-increase call and one mint call.
C11_SuccessShape ==
  \A p \in Procs :
    /\ calls[p].register <= 1 /\ calls[p].increase <= 1 /\ calls[p].mint <= 1
    /\ result[p].success =>
         /\ agentPc[p] = "done"
         /\ result[p].registryTx # NoTx
         /\ result[p].scoreTx # NoTx
         /\ result[p].registryTx # result[p].scoreTx
         /\ (result[p].badgeTx # NoTx) <=> (calls[p].mint = 1)
         /\ calls[p].register = 1 /\ calls[p].increase = 1

\* one successful run that minted and one that had no badge to mint
C11_Witness ==
  \E p, q \in Procs :
    /\ result[p].success /\ result[p].badgeTx # NoTx /\ calls[p].mint = 1
    /\ result[q].success /\ result[q].badgeTx = NoTx /\ calls[q].mint = 0

\* C12: every contribution row is stored as pending and is verified only
\* once the ledger has confirmed the score increase of the submission that
\* wrote it; and no answer reports a contribution as verified while the
\* score increase of its submission is unconfirmed or has failed.
C12_VerifiedAfterIncrease ==
  /\ \A i \in DOMAIN contributions :
       contributions[i].status = "verified" =>
         client[contributions[i].by].increaseTx # NoTx
  /\ \A s \in Sessions :
       (response[s] # <<>> /\ response[s].ok /\ response[s].status = "verified") =>
         client[s].increaseTx # NoTx

\* the order of the tiers, and what a row (or no row) stores
TierRank(tier) ==
  CASE tier = "UNRANKED" -> 0 [] tier = "BUILDER" -> 1
    [] tier = "CONTRIBUTOR" -> 2 [] tier = "LEADER" -> 3
StoredTotal(row) == IF row = NoRow THEN 0 ELSE row.total_score
StoredRank(row) == IF row = NoRow THEN 0 ELSE TierRank(row.current_tier)

\* C13: over every sequence of accepted submissions, those whose tier read
\* fails included, no step lowers the stored cumulative score of an address
\* or moves its stored tier to a lower tier.
C13_StoredTierMonotone ==
  [][\A u \in WebUsers :
       /\ StoredTotal(userTiers'[u]) >= StoredTotal(userTiers[u])
       /\ StoredRank(userTiers'[u]) >= StoredRank(userTiers[u])]_vars

\* the declared address of a session is not the address found in the bio
\* (letter case aside), or the bio holds no well-formed address
OwnershipUnproven(s) ==
  LET detected == NormalizedBioWallet(bioWallet, keccakUpper)
  IN  \/ detected = NoAddr
      \/ ToLowerCase(request[s].address) # ToLowerCase(detected)

\* C14: a submission whose declared address is not the address found in the
\* profile bio, or whose bio holds no well-formed address, is rejected at
\* the submission boundary: no score is computed for it, the oracle is not
\* consulted for it, and it makes no store write and no ledger call.
C14_OwnershipBoundary ==
  /\ \A s \in Sessions :
       OwnershipUnproven(s) =>
         /\ webPc[s] \in {"submit", "done"}
         /\ webPc[s] = "done" => ~response[s].ok
         /\ post[s] = NoPost
         /\ client[s] = NoClient
         /\ calls[s] = NoCalls
         /\ \A i \in DOMAIN contributions : contributions[i].by # s
         /\ \A i \in DOMAIN history : history[i].by # s
         /\ \A u \in WebUsers : userTiers[u] # NoRow => userTiers[u].updated_at # Stamp(s)
  /\ oracleCalls <= Cardinality({s \in Sessions : ~OwnershipUnproven(s) /\ webPc[s] # "submit"})

\* a mismatching submission was rejected while the oracle was consulted for
\* another one, whose address is the one in the bio
C14_Witness ==
  \E s, t \in Sessions :
    /\ request[s].address = OtherWallet /\ bioWallet = WalletLower
    /\ webPc[s] = "done" /\ response[s].error = "mismatch"
    /\ ~OwnershipUnproven(t) /\ post[t].finalScore > 0 /\ oracleCalls = 1

\* C15: when the registry step fails, at submission or at confirmation, the
\* run stops there: it never submits a score-increase call or a mint call,
\* and its result has success = false with registryTx, scoreTx and badgeTx
\* all absent.
C15_RegistryFailureStops ==
  \A p \in Procs :
    failedStep[p] = "Registering" =>
      /\ agentPc[p] = "done"
      /\ result[p].success = FALSE
      /\ result[p].registryTx = NoTx
      /\ result[p].scoreTx = NoTx
      /\ result[p].badgeTx = NoTx
      /\ calls[p].increase = 0
      /\ calls[p].mint = 0

\* a run stopped at the registry, because its proof was already used by a
\* run that went on to raise the score
C15_Witness ==
  \E p, q \in Procs :
    /\ failedStep[p] = "Registering" /\ calls[p].register = 1
    /\ result[p].error = "execution reverted"
    /\ contribution[p] = contribution[q]
    /\ result[q].scoreTx # NoTx

\* C16: the tier that decides badge eligibility is the tier of the ledger's
\* own score for the address at the time of the decision, after the score
\* increase is confirmed: in every interleaving of runs for one address,
\* each badge decision uses the tier of the ledger total of that moment.
C16_BadgeTierFromLedger ==
  [][\A p \in Procs :
       (agentPc[p] = "badge" /\ agentPc'[p] = "done") =>
         CheckTierQualification(newTotal[p])
           = CheckTierQualification(chainScore[contribution[p].user])]_vars

\* C17: once the score-increase transaction is confirmed, the score step is
\* reported as successful with the hash of that transaction, whatever the
\* read-back does: a read-back that fails does not make the step a failure.
C17_ReadbackNotFatal ==
  \A s \in Sessions :
    (client[s].increaseTx # NoTx /\ webPc[s] # "readback") =>
      /\ client[s].onChain = "ok"
      /\ client[s].txHash = client[s].increaseTx

\* the three achievement time stamps of a tier row
AchievementStamps == {"builder_achieved_at", "contributor_achieved_at", "leader_achieved_at"}

\* C18: once a tier achievement time stamp (builder, contributor or leader)
\* of an address is set, every later tier update leaves it unchanged, over
\* every sequence of tier updates.
C18_StampsKept ==
  [][\A u \in TierUsers :
       userTiers[u] # NoRow =>
         \A f \in AchievementStamps :
           userTiers[u][f] # NoStamp => userTiers'[u][f] = userTiers[u][f]]_vars

\* the numeric fields of an opinion
OpinionScores == {"impactScore", "qualityScore", "authenticity", "finalScore"}

\* C19: for every oracle response and every fallback input, impactScore,
\* qualityScore, authenticity and finalScore of the opinion verifyWithAI
\* returns are numbers in [0, 100].
C19_ScoresInRange ==
  verifyPc = "done" =>
    \A f \in OpinionScores : verdict[f] >= 0 /\ verdict[f] <= 100

\* the recommendations an opinion may carry
Recommendations == {"accept", "review", "reject"}

\* C20: for every oracle response, the recommendation of the opinion
\* verifyWithAI returns is one of accept, review and reject, so an answer
\* that means reject, in any spelling or letter case, cannot pass the
\* reject gates.
C20_RecommendationNormalised ==
  verifyPc = "done" => verdict.recommendation \in Recommendations

\* C21: for every failure of the oracle call (missing key, transport error,
\* status that is not 2xx, empty content, no JSON object in the text, JSON
\* that does not parse) verifyWithAI returns, and what it returns is exactly
\* the deterministic fallback for the same signal.
C21_FallbackOnOracleFailure ==
  oracleOutcome \in OracleFailures \cup {"no_key"} =>
    /\ verifyPc = "done"
    /\ verdict = GenerateDefaultVerification(analysis)

\* the answer did not parse and the fallback accepted the profile
C21_Witness ==
  /\ oracleOutcome = "bad_json"
  /\ verdict = GenerateDefaultVerification(analysis)
  /\ verdict.recommendation = "accept"

\* C22: the badge token id and the badge artifact are a function of the
\* address and the tier only: two mint attempts for the same address, in
\* any letter case, and the same tier carry the same token id and the same
\* artifact URI.
C22_SameBadgeSameId ==
  \A m1, m2 \in minted :
    (m1.to = m2.to /\ m1.uri = m2.uri) => m1.tokenId = m2.tokenId

\* the shape of an ExecutionResult: which of its fields are present
ResultShape(r) ==
  [success |-> r.success, registryTx |-> r.registryTx # NoTx, scoreTx |-> r.scoreTx # NoTx,
   badgeTx |-> r.badgeTx # NoTx, error |-> r.error # Null]

\* C23: a ledger failure reported to the caller tells Unconfirmed (timeout
\* or dropped transaction) from Rejected (revert by the ledger): a run that
\* failed for the one and a run that failed for the other never return
\* results of the same shape.
C23_UnconfirmedVsRejected ==
  \A p, q \in Procs :
    (/\ failedStep[p] = "Registering" /\ result[p].error = "timeout"
     /\ failedStep[q] = "Registering" /\ result[q].error = "execution reverted")
      => ResultShape(result[p]) # ResultShape(result[q])

\* C24: every started run eventually ends, complete or failed: when a
\* ledger confirmation never arrives the waiting step times out and the run
\* reports a failure instead of waiting forever.
C24_EveryRunEnds ==
  \A p \in Procs : <>(agentPc[p] = "done")

\* C25: a submission with a malformed profile link or a malformed declared
\* address is rejected before any external call: no request to the identity
\* source, the oracle, the store or the ledger precedes the rejection.
C25_InputErrorBeforeCalls ==
  \A s \in Sessions :
    (/\ webPc[s] = "done"
     /\ \/ ~LinkMatches(request[s].link)
        \/ GetAddress(request[s].address, keccakUpper) = NoAddr)
      => /\ ~response[s].ok
         /\ identityCalls[s] = 0
         /\ post[s] = NoPost
         /\ calls[s] = NoCalls
         /\ \A i \in DOMAIN contributions : contributions[i].by # s

\* C26: generateBadgeTokenId is injective: for one address the tiers
\* BUILDER, CONTRIBUTOR and LEADER give three different token ids, and two
\* different addresses never give the same token id for the same tier.
C26_TokenIdInjective ==
  \A m1, m2 \in minted :
    m1.tokenId = m2.tokenId => (m1.to = m2.to /\ m1.uri = m2.uri)

\* C27: whatever the interleaving of submissions from one address, once the
\* score increase T of a submission is confirmed, the record that
\* updateContributionWithTx marks verified with on_chain_tx = T is the record
\* created for that submission, also when another pending record of the
\* address has the same score.
C27_MarksOwnRecord ==
  \A i \in DOMAIN contributions :
    (contributions[i].status = "verified" /\ contributions[i].on_chain_tx # NoTx) =>
      client[contributions[i].by].increaseTx = contributions[i].on_chain_tx

\* the submissions of user u the route accepted, the sum of their deltas, and
\* the total u had before any of them (the ledger started equal to the store
\* and has grown by the confirmed increases only)
AcceptedFor(u) ==
  {s \in Sessions : /\ response[s] # <<>> /\ response[s].ok
                    /\ UserKey(request[s].address) = u}
RECURSIVE SumOfDeltas(_)
SumOfDeltas(S) ==
  IF S = {} THEN 0
  ELSE LET s == CHOOSE x \in S : TRUE
       IN  response[s].score + SumOfDeltas(S \ {s})
PreviousTotal(u) ==
  chainScore[u] - SumOfDeltas({s \in AcceptedFor(u) : client[s].increaseTx # NoTx})

\* C28: whatever the interleaving of accepted submissions of one address
\* through the submit route, once all of them have completed the stored
\* total_score is the previous total plus the sum of all their deltas.
C28_NoLostUpdate ==
  (\A s \in Sessions : response[s] # <<>>) =>
    \A u \in WebUsers :
      StoredTotal(userTiers[u]) = PreviousTotal(u) + SumOfDeltas(AcceptedFor(u))

\* C29: the stored total, tier and history count the delta of a submission
\* only if its on-chain score increase was confirmed: once a submission has
\* ended, a history row with its delta exists only if its increase was
\* confirmed, and a user all of whose submissions ended without a confirmed
\* increase (the ledger step failed, or was never attempted) has the total
\* and the tier it had before.
C29_StoreCountsConfirmedOnly ==
  /\ \A i \in DOMAIN history :
       (webPc[history[i].by] = "done" /\ history[i].score_delta > 0)
         => client[history[i].by].increaseTx # NoTx
  /\ \A u \in WebUsers :
       (\A s \in Sessions :
          UserKey(request[s].address) = u
            => (webPc[s] = "done" /\ client[s].increaseTx = NoTx))
         => /\ StoredTotal(userTiers[u]) = chainScore[u]
            /\ StoredRank(userTiers[u]) = TierRank(RouteNewTier(chainScore[u]))

\* C30: executeOnchain and runAgent never raise: every failure of a ledger
\* call ends the run with an ExecutionResult, success = true only with error
\* absent and success = false only with error present; and when the first
\* score read of runAgent fails no ledger mutation is submitted.
C30_FailuresAreResults ==
  \A p \in Procs :
    /\ result[p].success => result[p].error = Null
    /\ agentPc[p] = "done" => (result[p].success <=> result[p].error = Null)
    /\ failedStep[p] # "none" =>
         /\ agentPc[p] = "done"
         /\ ~result[p].success
         /\ result[p].error \in Causes
    /\ failedStep[p] = "Scoring" =>
         /\ calls[p] = NoCalls
         /\ result[p] = [EmptyResult EXCEPT !.error = result[p].error]

\* one run whose score read failed and one whose mint failed after both
\* earlier transactions were confirmed
C30_Witness ==
  \E p, q \in Procs :
    /\ failedStep[p] = "Scoring" /\ result[p].error = "timeout" /\ calls[p] = NoCalls
    /\ failedStep[q] = "Minting" /\ result[q].error = "execution reverted"
    /\ result[q].scoreTx # NoTx /\ ~result[q].success

====
